---- MODULE Spec2Model ----
(***************************************************************************)
(* Model of emmanuel-e2/ble-parser: the AD-structure scanner               *)
(* (extractServiceData16), the H4 Pro frame decoders (ParseH4ProToOutput,  *)
(* buildTH, buildInfo) and the HTTP handler (handleMessage) that chains    *)
(* them with persistence and publishing.                                   *)
(*                                                                         *)
(* Conventions.  Go strings are sequences of one-character strings, so     *)
(* that hex decoding, hex formatting and case mapping are computed and not *)
(* assumed.  Go byte slices are sequences of 0..255; Go index k is TLA+    *)
(* index k+1 (see At).  A slice value is a record [nil, b] because the     *)
(* scanner distinguishes a nil rest from a non-empty one.  An index or     *)
(* slice expression out of range is a Go run-time panic: pc = "panic".     *)
(* float64(v)/10.0 is the exact rational [num |-> v, den |-> 10].          *)
(***************************************************************************)
EXTENDS Integers, Sequences, FiniteSets, TLC

VARIABLES
    pc,          \* position of the running call
    caller,      \* entry point of the run: which function the environment invoked
    in,          \* MQTTMessage decoded from the request body (+ method, json validity)
    dev,         \* rows returned by fetchDevice: [name, hw]
    env,         \* process state the handler reads: [publisher] (cbPublisher != nil)
    payloadHex,  \* argument of extractServiceData16
    raw,         \* extractServiceData16: decoded bytes
    i,           \* extractServiceData16: scan position
    adIdx,       \* extractServiceData16: index of the AD structure being visited
    sres,        \* extractServiceData16: returned (uuidText, frameType, rest, ok)
    darg,        \* arguments of ParseH4ProToOutput: [frameType, p, ts, mac, deviceName, rssi]
    off,         \* buildTH / buildInfo: cursor
    out,         \* buildTH / buildInfo: output map
    dres,        \* ParseH4ProToOutput: returned [called, ok, err]
    reads,       \* Go indices of p the decoder has read
    resp,        \* HTTP response written by handleMessage
    effects,     \* external steps performed, in order: "db_ok", "db_err", "pub_ok", "pub_err"
    other,       \* locals of a second call that is not running at the moment
    calls        \* calls made so far: [n, run, parked, log]

scanVars == <<payloadHex, raw, i, adIdx, sres>>
decVars  == <<darg, off, out, dres, reads>>
reqVars  == <<caller, in, dev, env, other, calls>>
hVars    == <<resp, effects>>
vars     == <<pc, caller, in, dev, env, payloadHex, raw, i, adIdx, sres,
              darg, off, out, dres, reads, resp, effects, other, calls>>

(***************************************************************************)
(* Bytes, characters, strings                                              *)
(***************************************************************************)
Byte == 0..255

\* Go b[k]; an out-of-range read (a Go panic) is marked with -1
At(b, k) == IF 0 <= k /\ k < Len(b) THEN b[k + 1] ELSE -1

\* Go b[lo:hi]
Slice(b, lo, hi) == SubSeq(b, lo + 1, hi)

NilSlice == [nil |-> TRUE, b |-> <<>>]
Bytes(s) == [nil |-> FALSE, b |-> s]

UpperDigits == <<"0","1","2","3","4","5","6","7","8","9","A","B","C","D","E","F">>
LowerDigits == <<"0","1","2","3","4","5","6","7","8","9","a","b","c","d","e","f">>

\* encoding/hex fromHexChar as a table
HexValue ==
    [c \in {UpperDigits[k] : k \in 1..16} \cup {LowerDigits[k] : k \in 1..16} |->
        (CHOOSE k \in 1..16 : UpperDigits[k] = c \/ LowerDigits[k] = c) - 1]

\* encoding/hex fromHexChar: value of a hex digit, -1 for any other character
fromHexChar(c) == IF c \in DOMAIN HexValue THEN HexValue[c] ELSE -1

IsLowerLetter(c) == c \in {LowerDigits[k] : k \in 11..16}
IsUpperLetter(c) == c \in {UpperDigits[k] : k \in 11..16}

\* strings.ToUpper on one character (the letters that occur: a-f, x)
ToUpperChar(c) ==
    IF IsLowerLetter(c) THEN UpperDigits[HexValue[c] + 1]
    ELSE IF c = "x" THEN "X"
    ELSE c

\* strings.ToLower on one character
ToLowerChar(c) ==
    IF IsUpperLetter(c) THEN LowerDigits[HexValue[c] + 1]
    ELSE IF c = "X" THEN "x"
    ELSE c

\* strings.ToUpper
RECURSIVE ToUpper(_)
ToUpper(s) == IF s = <<>> THEN <<>> ELSE <<ToUpperChar(Head(s))>> \o ToUpper(Tail(s))

\* strings.ToLower
RECURSIVE ToLower(_)
ToLower(s) == IF s = <<>> THEN <<>> ELSE <<ToLowerChar(Head(s))>> \o ToLower(Tail(s))

IsSpace(c) == c \in {" ", "\n", "\t"}

RECURSIVE TrimLeft(_)
TrimLeft(s) ==
    IF s # <<>> /\ IsSpace(Head(s)) THEN TrimLeft(Tail(s)) ELSE s

RECURSIVE TrimRight(_)
TrimRight(s) ==
    IF s # <<>> /\ IsSpace(s[Len(s)]) THEN TrimRight(SubSeq(s, 1, Len(s) - 1)) ELSE s

\* strings.TrimSpace
TrimSpace(s) == TrimRight(TrimLeft(s))

\* hex.DecodeString: [err, b]; an odd length or a non-hex character is an error
RECURSIVE HexPairsFrom(_, _)
HexPairsFrom(s, k) ==
    IF k > Len(s) THEN <<>>
    ELSE <<16 * fromHexChar(s[k]) + fromHexChar(s[k + 1])>> \o HexPairsFrom(s, k + 2)

HexPairs(s) == HexPairsFrom(s, 1)

HexDecodeString(s) ==
    IF Len(s) % 2 # 0 \/ \E k \in 1..Len(s) : fromHexChar(s[k]) < 0
    THEN [err |-> TRUE, b |-> <<>>]
    ELSE [err |-> FALSE, b |-> HexPairs(s)]

\* fmt.Sprintf("%02X", b)
Sprintf02X(b) == <<UpperDigits[(b \div 16) + 1], UpperDigits[(b % 16) + 1]>>

\* hex.EncodeToString (lower case)
RECURSIVE EncodeToString(_)
EncodeToString(b) ==
    IF b = <<>> THEN <<>>
    ELSE <<LowerDigits[(Head(b) \div 16) + 1], LowerDigits[(Head(b) % 16) + 1]>>
         \o EncodeToString(Tail(b))

\* fmt.Sprintf("%d", v) for v >= 0
RECURSIVE SprintfD(_)
SprintfD(v) ==
    IF v < 10 THEN <<UpperDigits[v + 1]>>
    ELSE SprintfD(v \div 10) \o <<UpperDigits[(v % 10) + 1]>>

\* fmt.Sprintf("%08b", v) for a byte v
RECURSIVE Binary(_, _)
Binary(v, width) ==
    IF width = 0 /\ v = 0 THEN <<>>
    ELSE Binary(v \div 2, IF width > 0 THEN width - 1 ELSE 0)
         \o <<IF v % 2 = 1 THEN "1" ELSE "0">>

Sprintf08b(v) == Binary(v, 8)

(***************************************************************************)
(* extractServiceData16                                                    *)
(***************************************************************************)
ServiceData16 == 22    \* AD type 0x16
MinServiceLen == 4     \* type + 2 UUID bytes + frame type

NotFound == [uuidText |-> <<>>, frameType |-> 0, rest |-> NilSlice, ok |-> FALSE]

\* variant: the overrun test forgets the length byte itself
MalformedLength_m(length, pos, total) == length = 0 \/ pos + length > total

\* line 24: a zero length, or a structure that runs past the payload
MalformedLength(length, pos, total) == length = 0 \/ pos + 1 + length > total

\* line 31
IsServiceData(typ) == typ = ServiceData16

\* variant: the UUID bytes are formatted in wire order
UuidText_m(lsb, msb) == ToUpper(Sprintf02X(lsb) \o Sprintf02X(msb))

\* lines 36-38
UuidText(lsb, msb) == ToUpper(Sprintf02X(msb) \o Sprintf02X(lsb))

\* variant: the data runs to the end of the payload instead of the structure
ServiceData_m(b, pos, length) == Slice(b, pos + 4, Len(b))

\* line 39
ServiceData(b, pos, length) == Slice(b, pos + 4, pos + 1 + length)

\* lines 40-49
MatchResult(b, pos, length) ==
    LET data == ServiceData(b, pos, length)
        uuid == UuidText(At(b, pos + 2), At(b, pos + 3))
    IN  IF Len(data) = 0
        THEN [uuidText |-> uuid, frameType |-> 0, rest |-> NilSlice, ok |-> TRUE]
        ELSE [uuidText |-> uuid, frameType |-> At(data, 0),
              rest |-> IF Len(data) > 1 THEN Bytes(Slice(data, 1, Len(data))) ELSE NilSlice,
              ok |-> TRUE]

\* where extractServiceData16 returns to
ScanReturnPc == IF caller = "handleMessage" THEN "h_extracted" ELSE "done"

ScanReturn(r) ==
    /\ sres' = r
    /\ pc' = ScanReturnPc

\* lines 13-18
ExtractBegin ==
    /\ pc = "ex_entry"
    /\ LET d == HexDecodeString(TrimSpace(payloadHex))
       IN  IF d.err \/ Len(d.b) = 0
           THEN /\ ScanReturn(NotFound)
                /\ UNCHANGED <<raw, i, adIdx>>
           ELSE /\ raw' = d.b
                /\ i' = 0
                /\ adIdx' = 0
                /\ pc' = "ex_loop"
                /\ UNCHANGED sres
    /\ UNCHANGED <<payloadHex, reqVars, decVars, hVars>>

\* lines 19, 54: the loop condition fails
ScanExhausted ==
    /\ pc = "ex_loop"
    /\ ~(i < Len(raw))
    /\ ScanReturn(NotFound)
    /\ UNCHANGED <<payloadHex, raw, i, adIdx, reqVars, decVars, hVars>>

\* variant: a dangling length byte is stepped over as a structure of its own
ScanDangling_m ==
    /\ pc = "ex_loop"
    /\ i < Len(raw)
    /\ i + 1 >= Len(raw)
    /\ i' = i + 1 + At(raw, i)
    /\ adIdx' = adIdx + 1
    /\ UNCHANGED <<pc, payloadHex, raw, sres, reqVars, decVars, hVars>>

\* lines 20-22: a length byte with no type byte after it
ScanDangling ==
    /\ pc = "ex_loop"
    /\ i < Len(raw)
    /\ i + 1 >= Len(raw)
    /\ ScanReturn(NotFound)
    /\ UNCHANGED <<payloadHex, raw, i, adIdx, reqVars, decVars, hVars>>

\* variant: a malformed length is skipped and the scan resumes at the next byte
ScanMalformed_m ==
    /\ pc = "ex_loop"
    /\ i < Len(raw)
    /\ ~(i + 1 >= Len(raw))
    /\ MalformedLength(At(raw, i), i, Len(raw))
    /\ i' = i + 1
    /\ UNCHANGED <<pc, payloadHex, raw, adIdx, sres, reqVars, decVars, hVars>>

\* lines 23-27
ScanMalformed ==
    /\ pc = "ex_loop"
    /\ i < Len(raw)
    /\ ~(i + 1 >= Len(raw))
    /\ MalformedLength(At(raw, i), i, Len(raw))
    /\ ScanReturn(NotFound)
    /\ UNCHANGED <<payloadHex, raw, i, adIdx, reqVars, decVars, hVars>>

\* variant: a service-data structure too short for a UUID is skipped
ScanTooShort_m ==
    /\ pc = "ex_loop"
    /\ i < Len(raw)
    /\ ~(i + 1 >= Len(raw))
    /\ ~MalformedLength(At(raw, i), i, Len(raw))
    /\ IsServiceData(At(raw, i + 1))
    /\ At(raw, i) < MinServiceLen
    /\ i' = i + 1 + At(raw, i)
    /\ adIdx' = adIdx + 1
    /\ UNCHANGED <<pc, payloadHex, raw, sres, reqVars, decVars, hVars>>

\* lines 31-35
ScanTooShort ==
    /\ pc = "ex_loop"
    /\ i < Len(raw)
    /\ ~(i + 1 >= Len(raw))
    /\ ~MalformedLength(At(raw, i), i, Len(raw))
    /\ IsServiceData(At(raw, i + 1))
    /\ At(raw, i) < MinServiceLen
    /\ ScanReturn(NotFound)
    /\ UNCHANGED <<payloadHex, raw, i, adIdx, reqVars, decVars, hVars>>

\* raw[i+2], raw[i+3] and raw[i+4 : i+1+length] are all in range
MatchInRange(b, pos, length) ==
    /\ pos + 3 < Len(b)
    /\ pos + 4 <= pos + 1 + length
    /\ pos + 1 + length <= Len(b)

\* lines 36-49
ScanMatch ==
    /\ pc = "ex_loop"
    /\ i < Len(raw)
    /\ ~(i + 1 >= Len(raw))
    /\ ~MalformedLength(At(raw, i), i, Len(raw))
    /\ IsServiceData(At(raw, i + 1))
    /\ ~(At(raw, i) < MinServiceLen)
    /\ IF MatchInRange(raw, i, At(raw, i))
       THEN ScanReturn(MatchResult(raw, i, At(raw, i)))
       ELSE pc' = "panic" /\ UNCHANGED sres
    /\ UNCHANGED <<payloadHex, raw, i, adIdx, reqVars, decVars, hVars>>

\* variant: the position advances by length instead of 1 + length
ScanAdvance_m ==
    /\ pc = "ex_loop"
    /\ i < Len(raw)
    /\ ~(i + 1 >= Len(raw))
    /\ ~MalformedLength(At(raw, i), i, Len(raw))
    /\ ~IsServiceData(At(raw, i + 1))
    /\ i' = i + At(raw, i)
    /\ adIdx' = adIdx + 1
    /\ UNCHANGED <<pc, payloadHex, raw, sres, reqVars, decVars, hVars>>

\* lines 51-52
ScanAdvance ==
    /\ pc = "ex_loop"
    /\ i < Len(raw)
    /\ ~(i + 1 >= Len(raw))
    /\ ~MalformedLength(At(raw, i), i, Len(raw))
    /\ ~IsServiceData(At(raw, i + 1))
    /\ i' = i + 1 + At(raw, i)
    /\ adIdx' = adIdx + 1
    /\ UNCHANGED <<pc, payloadHex, raw, sres, reqVars, decVars, hVars>>

(***************************************************************************)
(* decoders: ParseH4ProToOutput, u16be, i16be, buildTH, buildInfo          *)
(***************************************************************************)
FrameTH   == 112   \* 0x70
FrameInfo == 64    \* 0x40
MacWidth  == 6     \* embedded MAC bytes
TailSkip  == 6     \* buildTH: off += 6 when bytes remain

NoOut == <<>>
NoResult == [called |-> "", state |-> "none", msg |-> "", ft |-> 0]

\* the width check every read makes: len(p) >= off+w
Fits(b, o, w) == Len(b) >= o + w

\* int16(x): the low 16 bits of x as a two's complement value
Int16(x) == LET u == x % 65536 IN IF u >= 32768 THEN u - 65536 ELSE u

\* variant: the width check asks for one byte instead of two
u16be_m(b, o) ==
    IF Len(b) < o + 1
    THEN [v |-> 0, ok |-> FALSE, off |-> o, rd |-> {}]
    ELSE [v |-> At(b, o) * 256 + At(b, o + 1), ok |-> TRUE, off |-> o + 2,
          rd |-> {o, o + 1}]

\* u16be: [v, ok, off, rd]; rd are the indices read
u16be(b, o) ==
    IF Len(b) < o + 2
    THEN [v |-> 0, ok |-> FALSE, off |-> o, rd |-> {}]
    ELSE [v |-> At(b, o) * 256 + At(b, o + 1), ok |-> TRUE, off |-> o + 2,
          rd |-> {o, o + 1}]

\* variant: the two bytes are combined without the int16 conversion
i16be_m(b, o) ==
    IF Len(b) < o + 2
    THEN [v |-> 0, ok |-> FALSE, off |-> o, rd |-> {}]
    ELSE [v |-> At(b, o) * 256 + At(b, o + 1), ok |-> TRUE, off |-> o + 2,
          rd |-> {o, o + 1}]

\* i16be: int(int16(b[off])<<8 | int16(b[off+1]))
i16be(b, o) ==
    IF Len(b) < o + 2
    THEN [v |-> 0, ok |-> FALSE, off |-> o, rd |-> {}]
    ELSE [v |-> Int16(Int16(At(b, o) * 256) + At(b, o + 1)), ok |-> TRUE, off |-> o + 2,
          rd |-> {o, o + 1}]

\* float64(v) / 10.0
Div10(v) == [num |-> v, den |-> 10]

\* variant: the identity is stored as supplied, without strings.ToUpper
Envelope_m(kind, a) ==
    LET base == [message_type |-> kind, timestamp |-> a.ts,
                 mac |-> a.mac, device_name |-> a.deviceName]
    IN  IF a.rssi.set THEN base @@ ("rssi" :> a.rssi.val) ELSE base

\* the envelope both builders start from
Envelope(kind, a) ==
    LET base == [message_type |-> kind, timestamp |-> a.ts,
                 mac |-> ToUpper(a.mac), device_name |-> a.deviceName]
    IN  IF a.rssi.set THEN base @@ ("rssi" :> a.rssi.val) ELSE base

P == darg.p.b

DecReturnPc == IF caller = "handleMessage" THEN "h_parsed" ELSE "done"

\* variant: an unknown frame type falls back to the T&H decoder
ParseH4ProToOutput_m ==
    /\ pc = "p_entry"
    /\ IF darg.frameType = FrameInfo
       THEN /\ pc' = "info_init"
            /\ dres' = [dres EXCEPT !.called = "buildInfo"]
       ELSE /\ pc' = "th_init"
            /\ dres' = [dres EXCEPT !.called = "buildTH"]
    /\ UNCHANGED <<darg, off, out, reads, reqVars, scanVars, hVars>>

\* lines 11-22
ParseH4ProToOutput ==
    /\ pc = "p_entry"
    /\ IF darg.frameType = FrameTH
       THEN /\ pc' = "th_init"
            /\ dres' = [dres EXCEPT !.called = "buildTH"]
       ELSE IF darg.frameType = FrameInfo
       THEN /\ pc' = "info_init"
            /\ dres' = [dres EXCEPT !.called = "buildInfo"]
       ELSE /\ pc' = DecReturnPc
            /\ dres' = [called |-> "", state |-> "err",
                        msg |-> "unknown H4 Pro frame_type", ft |-> darg.frameType]
    /\ UNCHANGED <<darg, off, out, reads, reqVars, scanVars, hVars>>

\* a one-byte field that is read and dropped (lines 55-57, 111-113)
SkipByte(here, next) ==
    /\ pc = here
    /\ off' = IF Fits(P, off, 1) THEN off + 1 ELSE off
    /\ pc' = next
    /\ UNCHANGED <<darg, out, dres, reads, reqVars, scanVars, hVars>>

\* advertising interval (lines 59-64, 115-120)
AdvInterval(here, next) ==
    /\ pc = here
    /\ IF Fits(P, off, 1)
       THEN LET steps == At(P, off)
            IN  /\ off' = off + 1
                /\ reads' = reads \cup {off}
                /\ out' = out @@ ("adv_interval_steps" :> steps)
                              @@ ("adv_interval_ms" :> steps * 100)
       ELSE UNCHANGED <<off, reads, out>>
    /\ pc' = next
    /\ UNCHANGED <<darg, dres, reqVars, scanVars, hVars>>

\* a 16-bit field read through u16be or i16be; r is the read, val its output value
Field16(here, next, r, key, val) ==
    /\ pc = here
    /\ off' = r.off
    /\ reads' = reads \cup r.rd
    /\ out' = IF r.ok THEN out @@ (key :> val) ELSE out
    /\ pc' = next
    /\ UNCHANGED <<darg, dres, reqVars, scanVars, hVars>>

\* return out, nil
BuildReturn(here) ==
    /\ pc = here
    /\ dres' = [dres EXCEPT !.state = "ok"]
    /\ pc' = DecReturnPc
    /\ UNCHANGED <<darg, off, out, reads, reqVars, scanVars, hVars>>

\* variant: the cursor is not set to 0 at the start of buildTH
TH_Init_m ==
    /\ pc = "th_init"
    /\ out' = Envelope("h4pro-t&h", darg)
    /\ pc' = "th_ranging"
    /\ UNCHANGED <<off, darg, dres, reads, reqVars, scanVars, hVars>>

\* lines 43-53
TH_Init ==
    /\ pc = "th_init"
    /\ out' = Envelope("h4pro-t&h", darg)
    /\ off' = 0
    /\ pc' = "th_ranging"
    /\ UNCHANGED <<darg, dres, reads, reqVars, scanVars, hVars>>

\* lines 55-57
TH_Ranging == SkipByte("th_ranging", "th_adv")

\* lines 59-64
TH_Adv == AdvInterval("th_adv", "th_temp")

\* lines 67-69
TH_Temp ==
    LET r == i16be(P, off) IN Field16("th_temp", "th_hum", r, "temperature", Div10(r.v))

\* lines 71-73
TH_Hum ==
    LET r == u16be(P, off) IN Field16("th_hum", "th_batt", r, "humidity", Div10(r.v))

\* lines 75-77
TH_Batt ==
    LET r == u16be(P, off) IN Field16("th_batt", "th_devtype", r, "batt_vol", r.v)

\* lines 80-83
TH_DevType ==
    /\ pc = "th_devtype"
    /\ IF Fits(P, off, 1)
       THEN /\ out' = out @@ ("device_type" :> At(P, off))
            /\ reads' = reads \cup {off}
            /\ off' = off + 1
       ELSE UNCHANGED <<off, reads, out>>
    /\ pc' = "th_mac"
    /\ UNCHANGED <<darg, dres, reqVars, scanVars, hVars>>

\* lines 85-88: the MAC is hex-encoded and dropped; the cursor stays
TH_Mac ==
    /\ pc = "th_mac"
    /\ reads' = IF Fits(P, off, MacWidth) THEN reads \cup (off..(off + MacWidth - 1)) ELSE reads
    /\ pc' = "th_tail"
    /\ UNCHANGED <<darg, off, out, dres, reqVars, scanVars, hVars>>

\* lines 90-93
TH_Tail ==
    /\ pc = "th_tail"
    /\ off' = IF Len(P) - off > 0 THEN off + TailSkip ELSE off
    /\ pc' = "th_ret"
    /\ UNCHANGED <<darg, out, dres, reads, reqVars, scanVars, hVars>>

\* line 95
TH_Return == BuildReturn("th_ret")

\* lines 99-109
Info_Init ==
    /\ pc = "info_init"
    /\ out' = Envelope("h4pro-info", darg)
    /\ off' = 0
    /\ pc' = "info_ranging"
    /\ UNCHANGED <<darg, dres, reads, reqVars, scanVars, hVars>>

\* lines 111-113
Info_Ranging == SkipByte("info_ranging", "info_adv")

\* lines 115-120
Info_Adv == AdvInterval("info_adv", "info_batt")

\* lines 122-124
Info_Batt ==
    LET r == u16be(P, off) IN Field16("info_batt", "info_prop", r, "batt_vol", r.v)

\* a one-byte indicator emitted raw and as bits (lines 126-131, 133-138)
Indicator(here, next, key, bitsKey) ==
    /\ pc = here
    /\ IF Fits(P, off, 1)
       THEN LET val == At(P, off)
            IN  /\ off' = off + 1
                /\ reads' = reads \cup {off}
                /\ out' = out @@ (key :> val) @@ (bitsKey :> Sprintf08b(val))
       ELSE UNCHANGED <<off, reads, out>>
    /\ pc' = next
    /\ UNCHANGED <<darg, dres, reqVars, scanVars, hVars>>

\* lines 126-131
Info_Prop == Indicator("info_prop", "info_switch", "device_prop", "device_prop_bits")

\* lines 133-138
Info_Switch == Indicator("info_switch", "info_mac", "switch_status", "switch_status_bits")

\* variant: the embedded MAC is not skipped (as in buildTH, line 87)
Info_Mac_m ==
    /\ pc = "info_mac"
    /\ pc' = "info_fw"
    /\ UNCHANGED <<darg, off, out, dres, reads, reqVars, scanVars, hVars>>

\* lines 140-142
Info_Mac ==
    /\ pc = "info_mac"
    /\ off' = IF Fits(P, off, MacWidth) THEN off + MacWidth ELSE off
    /\ pc' = "info_fw"
    /\ UNCHANGED <<darg, out, dres, reads, reqVars, scanVars, hVars>>

\* "V0.0.%d"
FirmwareVer(v) == <<"V", "0", ".", "0", ".">> \o SprintfD(v)

\* lines 144-146
Info_Fw ==
    LET r == u16be(P, off) IN Field16("info_fw", "info_ret", r, "firmware_ver", FirmwareVer(r.v))

\* line 148
Info_Return == BuildReturn("info_ret")

DecoderStep ==
    \/ ParseH4ProToOutput
    \/ TH_Init \/ TH_Ranging \/ TH_Adv \/ TH_Temp \/ TH_Hum \/ TH_Batt
    \/ TH_DevType \/ TH_Mac \/ TH_Tail \/ TH_Return
    \/ Info_Init \/ Info_Ranging \/ Info_Adv \/ Info_Batt \/ Info_Prop
    \/ Info_Switch \/ Info_Mac \/ Info_Fw \/ Info_Return

(***************************************************************************)
(* handleMessage and its helpers                                           *)
(***************************************************************************)
NoResp == [code |-> 0, body |-> "", detail |-> <<>>]

Separators == {":", "-", ".", " "}

\* strings.NewReplacer(":", "", "-", "", ".", "", " ", "").Replace
RECURSIVE StripSeparators(_)
StripSeparators(s) ==
    IF s = <<>> THEN <<>>
    ELSE IF Head(s) \in Separators THEN StripSeparators(Tail(s))
    ELSE <<Head(s)>> \o StripSeparators(Tail(s))

\* normalize
normalize(m) ==
    [m EXCEPT !.DeviceMAC = ToLower(StripSeparators(m.DeviceMAC)),
              !.Payload = TrimSpace(m.Payload)]

\* isLikelyHex
isLikelyHex(s) ==
    /\ Len(s) # 0
    /\ Len(s) % 2 = 0
    /\ \A k \in 1..Len(s) : fromHexChar(s[k]) >= 0

\* validate: "" when the message is accepted, else the error text
validate(m) ==
    IF m.MessageID <= 0 THEN "message_id must be > 0"
    ELSE IF m.DeviceMAC = <<>> THEN "device_mac required"
    ELSE IF m.Payload = <<>> THEN "payload empty"
    ELSE IF m.Timestamp <= 0 THEN "timestamp ms required"
    ELSE IF ~isLikelyHex(m.Payload) THEN "payload is not hex-like"
    ELSE ""

\* macHexToBytea succeeds
macHexOk(s) ==
    LET d == HexDecodeString(StripSeparators(TrimSpace(s)))
    IN  ~d.err /\ Len(d.b) = 6

\* fetchDevice: the row of the device, or empty strings when the MAC does not
\* convert or no row exists (dev.hw = "")
fetchDevice(mac) ==
    IF macHexOk(mac) THEN dev ELSE [name |-> "", hw |-> ""]

Reject(code, body, detail) ==
    /\ resp' = [code |-> code, body |-> body, detail |-> detail]
    /\ pc' = "done"

\* lines 126-129
HandleMethod ==
    /\ pc = "h_entry"
    /\ IF in.method # "POST"
       THEN Reject(405, "only POST", <<>>)
       ELSE pc' = "h_decode" /\ UNCHANGED resp
    /\ UNCHANGED <<effects, reqVars, scanVars, decVars>>

\* lines 131-136
HandleDecodeBody ==
    /\ pc = "h_decode"
    /\ IF ~in.jsonOk
       THEN Reject(400, "invalid json", <<>>)
       ELSE pc' = "h_validate" /\ UNCHANGED resp
    /\ UNCHANGED <<effects, reqVars, scanVars, decVars>>

\* lines 138-146
HandleValidate ==
    /\ pc = "h_validate"
    /\ in' = normalize(in)
    /\ IF validate(in') # ""
       THEN Reject(400, "validation", validate(in'))
       ELSE pc' = "h_hex" /\ UNCHANGED resp
    /\ UNCHANGED <<effects, caller, dev, env, other, calls, scanVars, decVars>>

\* lines 149-157
HandleHexCheck ==
    /\ pc = "h_hex"
    /\ IF HexDecodeString(TrimSpace(in.Payload)).err
       THEN Reject(400, "payload must be hex", <<>>)
       ELSE pc' = "h_fetch" /\ UNCHANGED resp
    /\ UNCHANGED <<effects, reqVars, scanVars, decVars>>

\* lines 160-174: the gateway lookup is only logged; an unknown device is rejected
HandleFetch ==
    /\ pc = "h_fetch"
    /\ IF fetchDevice(in.DeviceMAC).hw = ""
       THEN Reject(400, "unknown device_hw_type; device not found", <<>>)
       ELSE pc' = "h_extract" /\ UNCHANGED resp
    /\ UNCHANGED <<effects, reqVars, scanVars, decVars>>

\* line 177: the call of extractServiceData16(in.Payload)
HandleExtract ==
    /\ pc = "h_extract"
    /\ payloadHex' = in.Payload
    /\ pc' = "ex_entry"
    /\ UNCHANGED <<raw, i, adIdx, sres, hVars, reqVars, decVars>>

SupportedUuid == <<"F", "E", "A", "B">>

\* variant: the UUID of the service data is not compared
HandleExtracted_m ==
    /\ pc = "h_extracted"
    /\ IF ~sres.ok
       THEN Reject(400, "no 0x16 service data in advertisement", <<>>)
       ELSE pc' = "h_dispatch" /\ UNCHANGED resp
    /\ UNCHANGED <<effects, reqVars, scanVars, decVars>>

\* lines 178-189
HandleExtracted ==
    /\ pc = "h_extracted"
    /\ IF ~sres.ok
       THEN Reject(400, "no 0x16 service data in advertisement", <<>>)
       ELSE IF ToUpper(sres.uuidText) # SupportedUuid
       THEN Reject(400, "unsupported service uuid", sres.uuidText)
       ELSE pc' = "h_dispatch" /\ UNCHANGED resp
    /\ UNCHANGED <<effects, reqVars, scanVars, decVars>>

\* lines 192-201: switch devHW
HandleDispatch ==
    /\ pc = "h_dispatch"
    /\ IF fetchDevice(in.DeviceMAC).hw = "H4 Pro"
       THEN /\ darg' = [frameType |-> sres.frameType, p |-> sres.rest,
                        ts |-> in.Timestamp, mac |-> in.DeviceMAC,
                        deviceName |-> fetchDevice(in.DeviceMAC).name, rssi |-> in.RSSI]
            /\ pc' = "p_entry"
            /\ UNCHANGED dres
       ELSE /\ dres' = [called |-> "", state |-> "err",
                        msg |-> "no parser for device_hw_type", ft |-> 0]
            /\ pc' = "h_parsed"
            /\ UNCHANGED darg
    /\ UNCHANGED <<off, out, reads, hVars, reqVars, scanVars>>

\* lines 202-207
HandleParsed ==
    /\ pc = "h_parsed"
    /\ IF dres.state = "err"
       THEN Reject(400, "parse error", <<dres.msg>>)
       ELSE pc' = "h_store" /\ UNCHANGED resp
    /\ UNCHANGED <<effects, reqVars, scanVars, decVars>>

\* updateParsedJSON: the UPDATE succeeds, fails, or affects no row
StoreOutcomes == {"ok", "exec error", "no backend_message row found"}

\* variant: a failed update is recorded and the handler goes on to publish
HandleStore_m ==
    /\ pc = "h_store"
    /\ \E r \in StoreOutcomes :
          effects' = Append(effects, IF r # "ok" THEN "db_err" ELSE "db_ok")
    /\ pc' = "h_publish"
    /\ UNCHANGED <<resp, reqVars, scanVars, decVars>>

\* lines 210-220
HandleStore ==
    /\ pc = "h_store"
    /\ \E r \in StoreOutcomes :
          IF r # "ok"
          THEN /\ effects' = Append(effects, "db_err")
               /\ Reject(500, "db update parsed_json", <<r>>)
          ELSE /\ effects' = Append(effects, "db_ok")
               /\ pc' = "h_publish"
               /\ UNCHANGED resp
    /\ UNCHANGED <<reqVars, scanVars, decVars>>

\* publishCallback: res.Get succeeds or fails
PublishOutcomes == {"ok", "publish failed"}

\* lines 223-255: a publish error is logged and not fatal
HandlePublish ==
    /\ pc = "h_publish"
    /\ IF env.publisher
       THEN \E r \in PublishOutcomes :
               effects' = Append(effects, IF r = "ok" THEN "pub_ok" ELSE "pub_err")
       ELSE UNCHANGED effects
    /\ pc' = "h_respond"
    /\ UNCHANGED <<resp, reqVars, scanVars, decVars>>

\* lines 257-265
HandleRespond ==
    /\ pc = "h_respond"
    /\ resp' = [code |-> 200, body |-> "ok", detail |-> <<in.MessageID, dev.hw, sres.frameType>>]
    /\ pc' = "done"
    /\ UNCHANGED <<effects, reqVars, scanVars, decVars>>

(***************************************************************************)
(* Inputs                                                                  *)
(***************************************************************************)
MaxPre    == 2    \* AD structures in front of the structure under test
MaxRawLen == 6    \* payloads enumerated byte by byte
MaxTail   == 2    \* bytes after the last documented field of a frame body

\* all sequences over S of length at most n
RECURSIVE SeqsUpTo(_, _)
SeqsUpTo(S, n) ==
    IF n = 0 THEN {<<>>}
    ELSE LET shorter == SeqsUpTo(S, n - 1)
         IN  shorter \cup {<<x>> \o s : x \in S, s \in {t \in shorter : Len(t) = n - 1}}

RECURSIVE Concat(_)
Concat(ss) == IF ss = <<>> THEN <<>> ELSE Head(ss) \o Concat(Tail(ss))

Prefixes(S) == UNION {{SubSeq(s, 1, n) : n \in 0..Len(s)} : s \in S}

\* the 22-byte advertisement of the end-to-end scenario
ExampleAdv ==
    <<2, 1, 6, 9, 22, 171, 254, 112, 5, 0, 150, 1, 244, 11, 184, 1,
      170, 187, 204, 221, 238, 255>>

EmbeddedMac == <<170, 187, 204, 221, 238, 255>>
EmbeddedMacs == {EmbeddedMac, <<0, 9, 0, 9, 0, 9>>}
RECURSIVE TailBytes(_)
TailBytes(n) == IF n = 0 THEN <<>> ELSE TailBytes(n - 1) \o <<16 + n>>

\* Temperature & Humidity bodies: ranging, steps, temperature, humidity,
\* battery, device type, MAC, tail
THFull ==
    {<<rg, st, t[1], t[2], h[1], h[2], b[1], b[2], dt>> \o m \o TailBytes(MaxTail) :
        m \in EmbeddedMacs,
        rg \in {0, 197}, st \in {0, 5, 255},
        t \in {<<0, 150>>, <<255, 156>>, <<128, 0>>, <<127, 255>>},
        h \in {<<1, 244>>, <<255, 255>>},
        b \in {<<11, 184>>, <<0, 0>>},
        dt \in {1, 255}}

\* Info bodies: ranging, steps, battery, property, switch, MAC, firmware, tail
InfoFull ==
    {<<rg, st, b[1], b[2], dp, sw>> \o m \o fw \o TailBytes(MaxTail) :
        m \in EmbeddedMacs,
        rg \in {0, 197}, st \in {0, 5, 255},
        b \in {<<11, 184>>, <<255, 255>>},
        dp \in {0, 133, 255}, sw \in {1, 128},
        fw \in {<<0, 7>>, <<0, 0>>, <<255, 255>>, <<1, 0>>}}

THBodies   == Prefixes(THFull)
InfoBodies == Prefixes(InfoFull)

THSample   == <<0, 5, 0, 150, 1, 244, 11, 184, 1>> \o EmbeddedMac \o TailBytes(MaxTail)
InfoSample == <<0, 5, 11, 184, 133, 1>> \o EmbeddedMac \o <<0, 7>> \o TailBytes(MaxTail)

\* a Service Data structure: length, 0x16, UUID (wire order), frame type, body
Svc(lsb, msb, ft, body) == <<4 + Len(body), 22, lsb, msb, ft>> \o body

\* structures without service data: flags, manufacturer data holding 0x16
\* bytes, a one-byte structure, and a structure whose length byte is 0x16
PreADs ==
    {<<2, 1, 6>>, <<3, 255, 22, 22>>, <<1, 9>>,
     <<22, 9, 22, 22, 22, 22, 22, 22, 22, 22, 22, 22, 22, 22, 22, 22, 22, 22, 22, 22, 22, 22, 22>>}

FrameTypes == {112, 64, 255, 22, 0}

\* the structure under test: well formed, too short, overrunning, zero length
Cores ==
    {Svc(171, 254, 112, b) : b \in Prefixes({THSample})}
    \cup {Svc(171, 254, 64, b) : b \in Prefixes({InfoSample})}
    \cup {Svc(171, 254, ft, b) : ft \in {255, 22, 0}, b \in Prefixes({THSample})}
    \cup {Svc(u[1], u[2], ft, b) : u \in {<<254, 171>>, <<170, 254>>, <<171, 255>>},
                                 ft \in {112, 255}, b \in {<<>>, THSample}}
    \cup {<<>>, <<0>>, <<0, 22>>, <<0, 22, 171, 254, 112>>, <<5, 22, 171>>, <<9, 1>>,
          <<4>>, <<22>>, <<1, 22>>, <<2, 22, 171>>, <<3, 22, 171, 254>>,
          <<9, 22, 171, 254, 112, 5, 0, 150, 1, 244>>}

\* what follows the structure under test
Posts ==
    {<<>>, <<4, 22, 171, 254, 64>>, <<9, 1>>, <<0>>, <<2, 1, 6>>,
     <<11, 184, 1, 170, 187, 204, 221, 238, 255>>}

ScanPayloads ==
    {Concat(pre) \o core \o post : pre \in SeqsUpTo(PreADs, MaxPre), core \in Cores, post \in Posts}
    \cup SeqsUpTo({0, 1, 4, 22}, MaxRawLen)
    \cup {ExampleAdv}

HandlerPayloads ==
    {pre \o core \o post : pre \in {<<>>, <<2, 1, 6>>}, core \in Cores,
                           post \in {<<>>, <<4, 22, 171, 254, 64>>, <<9, 1>>}}
    \cup {ExampleAdv}

\* upper-case hex text of a payload
UpperHex(b) == ToUpper(EncodeToString(b))

\* texts that are not the hex of any payload
BadHex == {<<>>, <<" ">>, <<"0">>, <<"0", "4", "1">>, <<"g", "g">>, <<"0", "x", "1", "6">>,
           <<"0", "4", " ", "1", "6">>}

\* a payload as the caller may write it: either case, surrounded by blanks
Spellings(b) ==
    {EncodeToString(b), UpperHex(b), <<" ">> \o EncodeToString(b) \o <<"\n">>}

SampleAdv == <<2, 1, 6>> \o Svc(171, 254, 112, THSample)

DeviceMacs ==
    {<<"a","a","b","b","c","c","d","d","e","e","f","f">>,
     <<"A","A",":","B","B",":","C","C",":","D","D",":","E","E",":","F","F">>}

Rssis == {[set |-> FALSE, val |-> 0], [set |-> TRUE, val |-> -70]}

DefaultMsg ==
    [method |-> "POST", jsonOk |-> TRUE, MessageID |-> 42,
     DeviceMAC |-> <<"a","a","b","b","c","c","d","d","e","e","f","f">>,
     Payload |-> <<>>, Timestamp |-> 1700000000, RSSI |-> [set |-> TRUE, val |-> -70]]

NoMsg == [DefaultMsg EXCEPT !.method = ""]
NoDev == [name |-> "", hw |-> ""]
NoArg == [frameType |-> 0, p |-> NilSlice, ts |-> 0, mac |-> <<>>, deviceName |-> "",
          rssi |-> [set |-> FALSE, val |-> 0]]

H4Pro == [name |-> "fridge-1", hw |-> "H4 Pro"]

\* requests whose payload varies, sent for a known H4 Pro device
PayloadSweep ==
    {[DefaultMsg EXCEPT !.Payload = EncodeToString(b)] : b \in HandlerPayloads}

\* requests whose other fields vary
EnvelopeSweep ==
    {[method |-> m, jsonOk |-> j, MessageID |-> id, DeviceMAC |-> mac,
      Payload |-> pl, Timestamp |-> t, RSSI |-> r] :
        m \in {"POST", "GET"}, j \in BOOLEAN, id \in {0, 42},
        mac \in DeviceMacs \cup {<<>>, <<"a", "a">>},
        pl \in Spellings(SampleAdv) \cup BadHex,
        t \in {0, 1700000000}, r \in Rssis}

Devices == {H4Pro, [name |-> "tag-7", hw |-> "H3"], [name |-> "", hw |-> "H4 Pro"], NoDev}

(***************************************************************************)
(* Specifications                                                          *)
(***************************************************************************)
IdleScan ==
    /\ payloadHex = <<>>
    /\ raw = <<>>
    /\ i = 0
    /\ adIdx = 0
    /\ sres = NotFound

IdleDecoder ==
    /\ darg = NoArg
    /\ off = 0
    /\ out = NoOut
    /\ dres = NoResult
    /\ reads = {}

\* the locals of a call that has not started
IdleFrame ==
    [pc |-> "idle", in |-> NoMsg, dev |-> NoDev, payloadHex |-> <<>>, raw |-> <<>>,
     i |-> 0, adIdx |-> 0, sres |-> NotFound, darg |-> NoArg, off |-> 0, out |-> NoOut,
     dres |-> NoResult, reads |-> {}, resp |-> NoResp]

NoRun == [input |-> [in |-> NoMsg, dev |-> NoDev], alone |-> TRUE, cut |-> FALSE, earlier |-> -1]

NoCalls == [n |-> 0, run |-> NoRun, parked |-> NoRun, log |-> <<>>]

IdleHandler ==
    /\ resp = NoResp
    /\ effects = <<>>
    /\ env = [publisher |-> TRUE]
    /\ other = IdleFrame
    /\ calls = NoCalls

\* one request arrives at handleMessage
Init ==
    /\ pc = "h_entry"
    /\ caller = "handleMessage"
    /\ \/ in \in PayloadSweep /\ dev \in {H4Pro, [name |-> "tag-7", hw |-> "H3"]}
       \/ in \in EnvelopeSweep /\ dev \in Devices
    /\ IdleScan
    /\ IdleDecoder
    /\ IdleHandler

ScanStep ==
    \/ ExtractBegin
    \/ ScanExhausted
    \/ ScanDangling
    \/ ScanMalformed
    \/ ScanTooShort
    \/ ScanMatch
    \/ ScanAdvance

HandlerStep ==
    \/ HandleMethod
    \/ HandleDecodeBody
    \/ HandleValidate
    \/ HandleHexCheck
    \/ HandleFetch
    \/ HandleExtract
    \/ HandleExtracted
    \/ HandleDispatch
    \/ HandleParsed
    \/ HandleStore
    \/ HandlePublish
    \/ HandleRespond

Next == HandlerStep \/ ScanStep \/ DecoderStep

Spec == Init /\ [][Next]_vars

\* payload texts handed to extractServiceData16
ScanTexts ==
    {EncodeToString(b) : b \in ScanPayloads}
    \cup UNION {Spellings(b) : b \in {SampleAdv, ExampleAdv, <<0>>}}
    \cup BadHex

\* extractServiceData16 called on its own
InitExtract ==
    /\ pc = "ex_entry"
    /\ caller = "extractServiceData16"
    /\ in = NoMsg
    /\ dev = NoDev
    /\ payloadHex \in ScanTexts
    /\ raw = <<>>
    /\ i = 0
    /\ adIdx = 0
    /\ sres = NotFound
    /\ IdleDecoder
    /\ IdleHandler

NextExtract == ScanStep

SpecExtract == InitExtract /\ [][NextExtract]_vars

\* payload texts for the calls whose return is awaited: every byte string over
\* {0, 1, 4, 0x16} up to a length, structures around one structure under test,
\* and texts that do not decode
WalkTexts ==
    {EncodeToString(b) : b \in SeqsUpTo({0, 1, 4, 22}, MaxRawLen - 2)}
    \cup {EncodeToString(pre \o core \o post) :
             pre \in PreADs \cup {<<>>}, core \in Cores, post \in {<<>>, <<4, 22, 171, 254, 64>>, <<0>>}}
    \cup BadHex

\* a caller about to invoke extractServiceData16
InitExtractCall ==
    /\ pc = "idle"
    /\ caller = "extractServiceData16"
    /\ in = NoMsg
    /\ dev = NoDev
    /\ IdleScan
    /\ IdleDecoder
    /\ IdleHandler

\* line 12: the call with its argument
ExtractCall ==
    /\ pc = "idle"
    /\ payloadHex' \in WalkTexts
    /\ pc' = "ex_entry"
    /\ UNCHANGED <<raw, i, adIdx, sres, reqVars, decVars, hVars>>

NextExtractCall == ExtractCall \/ ScanStep

\* sequential code: the call is made, and a call that can take a step takes it
SpecExtractFair ==
    InitExtractCall /\ [][NextExtractCall]_vars /\ WF_vars(NextExtractCall)

\* ParseH4ProToOutput called on its own
DecodeArgs ==
    {[frameType |-> 112, p |-> Bytes(b), ts |-> 1700000000,
      mac |-> <<"a","a","b","b","c","c","d","d","e","e","f","f">>,
      deviceName |-> "fridge-1", rssi |-> [set |-> TRUE, val |-> -70]] : b \in THBodies}
    \cup
    {[frameType |-> 64, p |-> Bytes(b), ts |-> 1700000000,
      mac |-> <<"a","a","b","b","c","c","d","d","e","e","f","f">>,
      deviceName |-> "fridge-1", rssi |-> [set |-> TRUE, val |-> -70]] : b \in InfoBodies}
    \cup
    {[frameType |-> ft, p |-> p, ts |-> t, mac |-> m, deviceName |-> n, rssi |-> r] :
        ft \in FrameTypes,
        p \in {NilSlice} \cup {Bytes(b) : b \in {SubSeq(THSample, 1, 4), THSample, InfoSample}},
        t \in {1, 1700000000},
        m \in {<<"a","a","b","b","c","c","d","d","e","e","f","f">>, <<"A","a","0","F","x">>},
        n \in {"fridge-1", ""}, r \in Rssis}

InitDecode ==
    /\ pc = "p_entry"
    /\ caller = "ParseH4ProToOutput"
    /\ in = NoMsg
    /\ dev = NoDev
    /\ IdleScan
    /\ darg \in DecodeArgs
    /\ off = 0
    /\ out = NoOut
    /\ dres = NoResult
    /\ reads = {}
    /\ IdleHandler

(***************************************************************************)
(* Several runs of the scan-then-decode part of handleMessage (lines       *)
(* 176-207), one after another or two at a time.  net/http serves every    *)
(* request on a goroutine of its own; the variables declared inside        *)
(* handleMessage, extractServiceData16, buildTH and buildInfo belong to    *)
(* the call that declared them.                                            *)
(***************************************************************************)
MaxCalls == 2    \* calls made in one behaviour

\* variant: the decoder cursor is one variable shared by all calls
Locals_m ==
    {"pc", "in", "dev", "payloadHex", "raw", "i", "adIdx", "sres", "darg", "out",
     "dres", "reads", "resp"}

\* the variables each call has for itself
Locals ==
    {"pc", "in", "dev", "payloadHex", "raw", "i", "adIdx", "sres", "darg", "off", "out",
     "dres", "reads", "resp"}

\* the running call's variables
Frame ==
    [pc |-> pc, in |-> in, dev |-> dev, payloadHex |-> payloadHex, raw |-> raw,
     i |-> i, adIdx |-> adIdx, sres |-> sres, darg |-> darg, off |-> off, out |-> out,
     dres |-> dres, reads |-> reads, resp |-> resp]

\* what the call that is not running finds when it runs again
Parked ==
    [pc |-> IF "pc" \in Locals THEN other.pc ELSE pc,
     in |-> IF "in" \in Locals THEN other.in ELSE in,
     dev |-> IF "dev" \in Locals THEN other.dev ELSE dev,
     payloadHex |-> IF "payloadHex" \in Locals THEN other.payloadHex ELSE payloadHex,
     raw |-> IF "raw" \in Locals THEN other.raw ELSE raw,
     i |-> IF "i" \in Locals THEN other.i ELSE i,
     adIdx |-> IF "adIdx" \in Locals THEN other.adIdx ELSE adIdx,
     sres |-> IF "sres" \in Locals THEN other.sres ELSE sres,
     darg |-> IF "darg" \in Locals THEN other.darg ELSE darg,
     off |-> IF "off" \in Locals THEN other.off ELSE off,
     out |-> IF "out" \in Locals THEN other.out ELSE out,
     dres |-> IF "dres" \in Locals THEN other.dres ELSE dres,
     reads |-> IF "reads" \in Locals THEN other.reads ELSE reads,
     resp |-> IF "resp" \in Locals THEN other.resp ELSE resp]

\* inputs of the runs: a T&H reading, an Info reading, and one rejection for
\* each way the scan ends without a match
InputTH ==
    [in |-> [DefaultMsg EXCEPT !.Payload =
                EncodeToString(<<2, 1, 6>> \o Svc(171, 254, 112, <<0, 5, 255, 156, 1, 244, 11, 184, 1, 170>>))],
     dev |-> H4Pro]

InputInfo ==
    [in |-> [DefaultMsg EXCEPT !.Payload =
                EncodeToString(Svc(171, 254, 64, <<0, 5, 11, 184, 133, 1>> \o EmbeddedMac \o <<0, 7>>)),
                !.Timestamp = 1700000060, !.RSSI = [set |-> FALSE, val |-> 0]],
     dev |-> [name |-> "tag-7", hw |-> "H4 Pro"]]

PipelineInputs ==
    {InputTH, InputInfo}
    \cup {[in |-> [DefaultMsg EXCEPT !.Payload = EncodeToString(b)], dev |-> H4Pro] :
             b \in {<<2, 1, 6, 0>>, <<2, 1, 6>>, <<0, 22>>, <<1, 22>>}}

Finished == pc \in {"h_store", "done"}

\* a request arrives and the running goroutine starts on it at line 176
Accept ==
    /\ pc = "idle"
    /\ calls.n < MaxCalls
    /\ \E x \in PipelineInputs :
          /\ in' = x.in
          /\ dev' = x.dev
          /\ calls' = [calls EXCEPT
                         !.n = @ + 1,
                         !.run = [input |-> x, alone |-> other.pc = "idle", cut |-> FALSE,
                                  earlier |-> calls.n],
                         !.parked = IF other.pc = "idle" THEN @ ELSE [@ EXCEPT !.alone = FALSE]]
    /\ resp' = NoResp
    /\ pc' = "h_extract"
    /\ UNCHANGED <<caller, env, effects, other, scanVars, decVars>>

\* the scheduler takes the running call off the processor and runs the other
Switch ==
    /\ ~Finished
    /\ pc # "idle" \/ other.pc # "idle"
    /\ other' = Frame
    /\ pc' = Parked.pc
    /\ in' = Parked.in
    /\ dev' = Parked.dev
    /\ payloadHex' = Parked.payloadHex
    /\ raw' = Parked.raw
    /\ i' = Parked.i
    /\ adIdx' = Parked.adIdx
    /\ sres' = Parked.sres
    /\ darg' = Parked.darg
    /\ off' = Parked.off
    /\ out' = Parked.out
    /\ dres' = Parked.dres
    /\ reads' = Parked.reads
    /\ resp' = Parked.resp
    /\ calls' = [calls EXCEPT
                   !.run = calls.parked,
                   !.parked = IF pc # "idle" /\ other.pc # "idle"
                              THEN [calls.run EXCEPT !.cut = TRUE]
                              ELSE calls.run]
    /\ UNCHANGED <<caller, env, effects>>

\* what a run hands back: the reading, or the rejection written to the response
Outcome ==
    IF pc = "h_store"
    THEN [kind |-> "reading", resp |-> NoResp, out |-> out]
    ELSE [kind |-> "rejection", resp |-> resp, out |-> NoOut]

\* the run is over (line 207 passed, or an early return)
PipelineReturn ==
    /\ Finished
    /\ calls' = [calls EXCEPT
                   !.log = Append(@, [input |-> calls.run.input, alone |-> calls.run.alone,
                                      cut |-> calls.run.cut, earlier |-> calls.run.earlier,
                                      outcome |-> Outcome]),
                   !.run = NoRun]
    /\ pc' = "idle"
    /\ UNCHANGED <<caller, in, dev, env, other, scanVars, decVars, hVars>>

PipelineStep ==
    \/ HandleExtract
    \/ HandleExtracted
    \/ HandleDispatch
    \/ HandleParsed
    \/ ScanStep
    \/ DecoderStep

InitCalls ==
    /\ pc = "idle"
    /\ caller = "handleMessage"
    /\ in = NoMsg
    /\ dev = NoDev
    /\ IdleScan
    /\ IdleDecoder
    /\ IdleHandler

NextCalls == Accept \/ Switch \/ PipelineReturn \/ PipelineStep

SpecCalls == InitCalls /\ [][NextCalls]_vars

\* extractServiceData16 reached through handleMessage or called on its own
InitCallers == Init \/ InitExtract

SpecCallers == InitCallers /\ [][Next]_vars

NextDecode == DecoderStep

SpecDecode == InitDecode /\ [][NextDecode]_vars

(***************************************************************************)
(* Properties                                                              *)
(***************************************************************************)
Terminated == pc \in {"done", "panic"}

Has(key) == key \in DOMAIN out

EnvelopeKeys == {"message_type", "timestamp", "mac", "device_name"}
             \cup (IF darg.rssi.set THEN {"rssi"} ELSE {})

\* the handler has run the scenario's advertisement through scanner and decoder
ExampleDecoded ==
    /\ caller = "handleMessage"
    /\ pc = "h_parsed"
    /\ raw = ExampleAdv
    /\ dres.state = "ok"

\* C1 as stated: the end-to-end advertisement is found with UUID FEAB and frame
\* type 0x70, and the T&H decoder applied to the returned rest bytes yields
\* steps 5, ms 500, temperature 15.0, humidity 50.0, batt_vol 3000, device_type 1.
C1_AsStated ==
    ExampleDecoded =>
        /\ sres.ok
        /\ sres.uuidText = <<"F", "E", "A", "B">>
        /\ sres.frameType = 112
        /\ out["message_type"] = "h4pro-t&h"
        /\ Has("adv_interval_steps") /\ out["adv_interval_steps"] = 5
        /\ Has("adv_interval_ms") /\ out["adv_interval_ms"] = 500
        /\ Has("temperature") /\ out["temperature"] = [num |-> 150, den |-> 10]
        /\ Has("humidity") /\ out["humidity"] = [num |-> 500, den |-> 10]
        /\ Has("batt_vol") /\ out["batt_vol"] = 3000
        /\ Has("device_type") /\ out["device_type"] = 1

\* C1 amended: the advertisement is found with UUID FEAB and frame type 0x70;
\* the structure's length byte 09 bounds the service data, so rest is the five
\* bytes 05 00 96 01 F4 and the T&H decoder yields steps 0, ms 0,
\* temperature -2713.5, device_type 244 and neither humidity nor batt_vol.
C1_EndToEnd ==
    ExampleDecoded =>
        /\ sres.ok
        /\ sres.uuidText = <<"F", "E", "A", "B">>
        /\ sres.frameType = 112
        /\ sres.rest = Bytes(<<5, 0, 150, 1, 244>>)
        /\ DOMAIN out = EnvelopeKeys \cup {"adv_interval_steps", "adv_interval_ms",
                                           "temperature", "device_type"}
        /\ out["message_type"] = "h4pro-t&h"
        /\ out["adv_interval_steps"] = 0
        /\ out["adv_interval_ms"] = 0
        /\ out["temperature"] = [num |-> -27135, den |-> 10]
        /\ out["device_type"] = 244

C1_Witness == ExampleDecoded /\ Has("device_type") /\ in.Payload = EncodeToString(ExampleAdv)

\* extractServiceData16, called on its own, has returned
ScanDone == caller = "extractServiceData16" /\ pc = "done"

\* the walk of well-formed AD structures from pos reaches one of type 0x16
RECURSIVE WalkReaches16(_, _)
WalkReaches16(b, pos) ==
    IF pos + 1 >= Len(b) THEN FALSE
    ELSE IF b[pos + 1] = 0 \/ pos + 1 + b[pos + 1] > Len(b) THEN FALSE
    ELSE IF b[pos + 2] = 22 THEN TRUE
    ELSE WalkReaches16(b, pos + 1 + b[pos + 1])

\* C2: a payload whose walk of AD structures never reaches a structure of type
\* 0x16 makes extractServiceData16 return ("", 0, nil, false), also when 0x16
\* occurs as a length byte or inside another structure's data.
C2_NoServiceData ==
    (Terminated /\ caller = "extractServiceData16" /\ ~WalkReaches16(raw, 0)) =>
        /\ pc = "done"
        /\ sres = [uuidText |-> <<>>, frameType |-> 0, rest |-> NilSlice, ok |-> FALSE]

C2_Witness ==
    /\ ScanDone
    /\ ~WalkReaches16(raw, 0)
    /\ adIdx >= 1
    /\ \E k \in 1..Len(raw) : raw[k] = 22
    /\ ~sres.ok

\* the walk by length bytes alone, from pos, comes to a structure whose
\* declared length runs past the payload
RECURSIVE WalkHasOverrun(_, _)
WalkHasOverrun(b, pos) ==
    IF pos >= Len(b) THEN FALSE
    ELSE IF b[pos + 1] = 0 THEN FALSE
    ELSE IF pos + 1 + b[pos + 1] > Len(b) THEN TRUE
    ELSE WalkHasOverrun(b, pos + 1 + b[pos + 1])

\* the same walk, stopped by a fitting type-0x16 structure of length >= 4
RECURSIVE OverrunUnmatched(_, _)
OverrunUnmatched(b, pos) ==
    IF pos >= Len(b) THEN FALSE
    ELSE IF b[pos + 1] = 0 THEN FALSE
    ELSE IF pos + 1 + b[pos + 1] > Len(b) THEN TRUE
    ELSE IF b[pos + 2] = 22 /\ b[pos + 1] >= 4 THEN FALSE
    ELSE OverrunUnmatched(b, pos + 1 + b[pos + 1])

\* C3 as stated: a payload containing an AD structure whose declared length
\* overruns the payload is reported not-found, whatever precedes that structure.
C3_AsStated ==
    (Terminated /\ caller = "extractServiceData16" /\ WalkHasOverrun(raw, 0)) => ~sres.ok

\* C3 amended: a payload containing an AD structure whose declared length
\* overruns the payload is reported not-found, whatever precedes that structure,
\* unless a fitting type-0x16 structure of length >= 4 precedes it.
C3_Overrun ==
    (Terminated /\ caller = "extractServiceData16" /\ OverrunUnmatched(raw, 0)) =>
        /\ pc = "done"
        /\ sres = NotFound

C3_Witness ==
    /\ ScanDone
    /\ OverrunUnmatched(raw, 0)
    /\ adIdx >= 1
    /\ i + 1 < Len(raw)
    /\ ~sres.ok

\* offset of the first structure of type 0x16 the walk reaches, or -1
RECURSIVE FirstSvc(_, _)
FirstSvc(b, pos) ==
    IF pos + 1 >= Len(b) THEN -1
    ELSE IF b[pos + 2] = 22 THEN pos
    ELSE IF b[pos + 1] = 0 \/ pos + 1 + b[pos + 1] > Len(b) THEN -1
    ELSE FirstSvc(b, pos + 1 + b[pos + 1])

\* C4: when the first type-0x16 structure the walk reaches, at offset k, has
\* 4 <= length and fits the payload, extractServiceData16 returns there with
\* ok, the UUID text being the upper-case hex of byte k+3 then byte k+2
\* (AB FE gives "FEAB"), frame_type = byte k+4 and rest = bytes k+5..k+length.
C4_FirstMatch ==
    (Terminated /\ caller = "extractServiceData16") =>
        LET k == FirstSvc(raw, 0)
            length == raw[k + 1]
        IN  (k >= 0 /\ 4 <= length /\ k + 1 + length <= Len(raw)) =>
                /\ pc = "done"
                /\ sres.ok
                /\ i = k
                /\ Len(sres.uuidText) = 4
                /\ HexDecodeString(sres.uuidText) = [err |-> FALSE, b |-> <<raw[k + 4], raw[k + 3]>>]
                /\ \A n \in 1..4 : sres.uuidText[n] \in {UpperDigits[d] : d \in 1..16}
                /\ (raw[k + 3] = 171 /\ raw[k + 4] = 254) => sres.uuidText = <<"F", "E", "A", "B">>
                /\ sres.frameType = raw[k + 5]
                /\ sres.rest.b = SubSeq(raw, k + 6, k + 1 + length)
                /\ Len(sres.rest.b) = length - 4
                /\ sres.rest.nil <=> length = 4

C4_Witness ==
    /\ ScanDone
    /\ sres.ok
    /\ adIdx >= 1
    /\ i + 1 + At(raw, i) < Len(raw)
    /\ WalkReaches16(raw, i + 1 + At(raw, i))
    /\ ~sres.rest.nil

\* ParseH4ProToOutput, called on its own, has returned from a frame decoder
DecodeDone(ft) ==
    /\ caller = "ParseH4ProToOutput"
    /\ Terminated
    /\ darg.frameType = ft

THKeys == {"adv_interval_steps", "adv_interval_ms", "temperature", "humidity",
           "batt_vol", "device_type"}

InfoKeys == {"adv_interval_steps", "adv_interval_ms", "batt_vol", "device_prop",
             "device_prop_bits", "switch_status", "switch_status_bits", "firmware_ver"}

\* C5: for every body length from 0 upward the T&H and Info decoders return a
\* reading and no error and never read an index at or beyond the body length; a
\* 4-byte T&H body yields message_type, adv_interval_steps, adv_interval_ms and
\* temperature and none of humidity, batt_vol, device_type.
C5_PartialTail ==
    (caller = "ParseH4ProToOutput" /\ darg.frameType \in {112, 64}) =>
        /\ pc # "panic"
        /\ \A k \in reads : 0 <= k /\ k < Len(P)
        /\ Terminated =>
              /\ dres.state = "ok"
              /\ EnvelopeKeys \subseteq DOMAIN out
              /\ out["message_type"] = (IF darg.frameType = 112 THEN "h4pro-t&h" ELSE "h4pro-info")
        /\ (Terminated /\ darg.frameType = 112 /\ Len(P) = 4) =>
              DOMAIN out = EnvelopeKeys \cup {"adv_interval_steps", "adv_interval_ms", "temperature"}

C5_Witness ==
    /\ DecodeDone(112)
    /\ Len(P) = 4
    /\ Has("temperature")
    /\ reads = {1, 2, 3}
    /\ dres.state = "ok"

THOrder == <<"adv_interval_steps", "temperature", "humidity", "batt_vol", "device_type">>
InfoOrder == <<"adv_interval_steps", "batt_vol", "device_prop", "switch_status", "firmware_ver">>

EmittedPrefix(order) ==
    \A j, k \in 1..Len(order) : (j < k /\ Has(order[k])) => Has(order[j])

\* C6: for every body length and both decoders, once a documented field is
\* omitted because it does not fit, no later field of the documented order is
\* emitted: the emitted keys form a prefix of the documented field order.
C6_StopsAtTruncation ==
    /\ (DecodeDone(112) /\ dres.state = "ok") => EmittedPrefix(THOrder)
    /\ (DecodeDone(64) /\ dres.state = "ok") => EmittedPrefix(InfoOrder)

\* a 16-bit pattern read as two's complement
Signed16(u) == IF u >= 32768 THEN u - 65536 ELSE u

\* C7: for every T&H body b of at least 9 bytes the reading has
\* adv_interval_steps = b[1], adv_interval_ms = 100*b[1], temperature = signed
\* big-endian b[2..3] / 10, humidity = unsigned b[4..5] / 10, batt_vol = unsigned
\* b[6..7], device_type = b[8]; bytes from index 9 on change nothing.
C7_THValues ==
    (DecodeDone(112) /\ Len(P) >= 9) =>
        /\ pc = "done"
        /\ dres.state = "ok"
        /\ DOMAIN out = EnvelopeKeys \cup THKeys
        /\ out["adv_interval_steps"] = P[2]
        /\ out["adv_interval_ms"] = 100 * P[2]
        /\ out["temperature"] = [num |-> Signed16(256 * P[3] + P[4]), den |-> 10]
        /\ out["humidity"] = [num |-> 256 * P[5] + P[6], den |-> 10]
        /\ out["batt_vol"] = 256 * P[7] + P[8]
        /\ out["device_type"] = P[9]
        /\ (P[3] = 0 /\ P[4] = 150) => out["temperature"] = [num |-> 150, den |-> 10]
        /\ (P[3] = 255 /\ P[4] = 156) => out["temperature"] = [num |-> -100, den |-> 10]
        /\ (P[5] = 1 /\ P[6] = 244) => out["humidity"] = [num |-> 500, den |-> 10]
        /\ (P[7] = 11 /\ P[8] = 184) => out["batt_vol"] = 3000

C7_Witness ==
    /\ DecodeDone(112)
    /\ Len(P) > 15
    /\ out["temperature"] = [num |-> -100, den |-> 10]
    /\ out["adv_interval_ms"] = 500
    /\ SubSeq(P, 10, 15) # EmbeddedMac

\* value of a digit string in the given base, most significant digit first
RECURSIVE DigitsValue(_, _)
DigitsValue(s, base) ==
    IF s = <<>> THEN 0
    ELSE base * DigitsValue(SubSeq(s, 1, Len(s) - 1), base)
         + (CHOOSE d \in 0..9 : UpperDigits[d + 1] = s[Len(s)])

IsBits8(s, v) ==
    /\ Len(s) = 8
    /\ \A n \in 1..8 : s[n] \in {"0", "1"}
    /\ DigitsValue(s, 2) = v

IsFirmware(s, v) ==
    /\ Len(s) >= 6
    /\ SubSeq(s, 1, 5) = <<"V", "0", ".", "0", ".">>
    /\ \A n \in 6..Len(s) : s[n] \in {UpperDigits[d] : d \in 1..10}
    /\ Len(s) > 6 => s[6] # "0"
    /\ DigitsValue(SubSeq(s, 6, Len(s)), 10) = v

\* C8: for every Info body b of at least 14 bytes the reading has message_type
\* "h4pro-info", steps = b[1], ms = 100*b[1], batt_vol = unsigned b[2..3],
\* device_prop = b[4] and switch_status = b[5] each with its 8-character
\* MSB-first binary text, firmware_ver = "V0.0." + decimal of unsigned b[12..13];
\* the MAC bytes b[6..11] appear nowhere.
C8_InfoValues ==
    (DecodeDone(64) /\ Len(P) >= 14) =>
        /\ pc = "done"
        /\ dres.state = "ok"
        /\ DOMAIN out = EnvelopeKeys \cup InfoKeys
        /\ out["message_type"] = "h4pro-info"
        /\ out["adv_interval_steps"] = P[2]
        /\ out["adv_interval_ms"] = 100 * P[2]
        /\ out["batt_vol"] = 256 * P[3] + P[4]
        /\ out["device_prop"] = P[5]
        /\ IsBits8(out["device_prop_bits"], P[5])
        /\ out["switch_status"] = P[6]
        /\ IsBits8(out["switch_status_bits"], P[6])
        /\ IsFirmware(out["firmware_ver"], 256 * P[13] + P[14])
        /\ (P[13] = 0 /\ P[14] = 7) => out["firmware_ver"] = <<"V", "0", ".", "0", ".", "7">>
        /\ (P[13] = 0 /\ P[14] = 0) => out["firmware_ver"] = <<"V", "0", ".", "0", ".", "0">>
        /\ reads \cap 6..11 = {}

C8_Witness ==
    /\ DecodeDone(64)
    /\ Len(P) >= 14
    /\ out["firmware_ver"] = <<"V", "0", ".", "0", ".", "7">>
    /\ out["device_prop_bits"] = <<"1", "0", "0", "0", "0", "1", "0", "1">>
    /\ SubSeq(P, 7, 12) # EmbeddedMac

\* no frame decoder has run and nothing was stored or published
NothingDecoded ==
    /\ dres.called = ""
    /\ dres.state # "ok"
    /\ DOMAIN out = {}
    /\ reads = {}
    /\ off = 0
    /\ effects = <<>>
    /\ resp.code # 200

\* C9: for hardware family "H4 Pro" and a frame type other than 0x70 and 0x40
\* the result is an error and no reading, whatever the body, and no body byte
\* is parsed; for any other hardware family the handler reports a no-parser
\* error and no frame decoder is invoked.
C9_NoDefaultDecoder ==
    /\ (caller = "handleMessage" /\ darg # NoArg /\ darg.frameType \notin {112, 64}) =>
          /\ NothingDecoded
          /\ pc \in {"p_entry", "h_parsed", "done"}
          /\ pc \in {"h_parsed", "done"} =>
                /\ dres.state = "err"
                /\ dres.msg = "unknown H4 Pro frame_type"
                /\ dres.ft = darg.frameType
          /\ pc = "done" => (resp.code = 400 /\ resp.body = "parse error")
    /\ (caller = "handleMessage" /\ dev.hw # "H4 Pro") =>
          /\ NothingDecoded
          /\ darg = NoArg
          /\ pc \notin {"p_entry", "h_store", "h_publish", "h_respond"}
          /\ pc = "h_parsed" =>
                (dres.state = "err" /\ dres.msg = "no parser for device_hw_type")
          /\ (pc = "done" /\ dres.state = "err") =>
                /\ resp.code = 400
                /\ resp.body = "parse error"
                /\ resp.detail = <<"no parser for device_hw_type">>

C9_Witness ==
    /\ caller = "handleMessage"
    /\ pc = "done"
    /\ dev.hw = "H4 Pro"
    /\ darg.frameType = 255
    /\ Len(darg.p.b) >= 9
    /\ dres.state = "err"
    /\ resp.body = "parse error"

\* C10: when the first type-0x16 structure of the advertisement is usable and
\* its UUID is not FEAB, the handler rejects the message with the
\* unsupported-service-UUID error and reaches no frame decoder, persistence or
\* publish step, whatever the frame type, the body and the later structures.
C10_UnsupportedUuid ==
    /\ (caller = "handleMessage" /\ sres.ok /\ sres.uuidText # <<"F", "E", "A", "B">>) =>
          /\ NothingDecoded
          /\ darg = NoArg
          /\ pc \in {"h_extracted", "done"}
    /\ (caller = "handleMessage" /\ pc = "done" /\ raw # <<>>) =>
          LET k == FirstSvc(raw, 0)
          IN  (/\ k >= 0
               /\ raw[k + 1] >= 4
               /\ k + 1 + raw[k + 1] <= Len(raw)
               /\ <<raw[k + 3], raw[k + 4]>> # <<171, 254>>) =>
                  /\ resp.code = 400
                  /\ resp.body = "unsupported service uuid"
                  /\ resp.detail = sres.uuidText
                  /\ sres.uuidText # <<"F", "E", "A", "B">>

C10_Witness ==
    /\ caller = "handleMessage"
    /\ pc = "done"
    /\ resp.body = "unsupported service uuid"
    /\ sres.frameType = 112
    /\ sres.rest = Bytes(THSample)
    /\ WalkReaches16(raw, i + 1 + At(raw, i))

\* t is s with every lower-case letter replaced by its upper-case letter
IsUpperOf(t, s) ==
    /\ Len(t) = Len(s)
    /\ \A n \in 1..Len(s) :
          /\ t[n] \notin {"a", "b", "c", "d", "e", "f", "x"}
          /\ t[n] = s[n] \/ <<s[n], t[n]>> \in {<<"a", "A">>, <<"b", "B">>, <<"c", "C">>,
                                               <<"d", "D">>, <<"e", "E">>, <<"f", "F">>,
                                               <<"x", "X">>}

\* C11: every reading returned by either frame decoder, for every body length
\* including 0, has message_type ("h4pro-t&h" for 0x70, "h4pro-info" for 0x40),
\* timestamp, upper-cased mac and device_name as supplied by the caller, and has
\* the key rssi, with the supplied value, exactly when a signal strength was
\* supplied.
C11_Envelope ==
    (caller = "ParseH4ProToOutput" /\ Terminated /\ dres.state = "ok") =>
        /\ darg.frameType \in {112, 64}
        /\ {"message_type", "timestamp", "mac", "device_name"} \subseteq DOMAIN out
        /\ out["message_type"] = (IF darg.frameType = 112 THEN "h4pro-t&h" ELSE "h4pro-info")
        /\ out["timestamp"] = darg.ts
        /\ IsUpperOf(out["mac"], darg.mac)
        /\ out["device_name"] = darg.deviceName
        /\ Has("rssi") <=> darg.rssi.set
        /\ darg.rssi.set => out["rssi"] = darg.rssi.val

C11_Witness ==
    /\ DecodeDone(64)
    /\ dres.state = "ok"
    /\ Len(P) = 0
    /\ ~darg.rssi.set
    /\ ~Has("rssi")
    /\ darg.mac = <<"A", "a", "0", "F", "x">>
    /\ out["mac"] = <<"A", "A", "0", "F", "X">>
    /\ darg.ts = 1

\* how the walk of AD structures from pos ends
RECURSIVE WalkEnd(_, _)
WalkEnd(b, pos) ==
    IF pos >= Len(b) THEN "no 0x16 structure"
    ELSE IF pos + 1 >= Len(b) THEN "dangling length byte"
    ELSE IF b[pos + 1] = 0 THEN "zero length"
    ELSE IF pos + 1 + b[pos + 1] > Len(b) THEN "overrunning length"
    ELSE IF b[pos + 2] = 22 THEN (IF b[pos + 1] < 4 THEN "short 0x16" ELSE "usable 0x16")
    ELSE WalkEnd(b, pos + 1 + b[pos + 1])

\* the kind of a payload text
TextKind(text) ==
    LET d == HexDecodeString(TrimSpace(text))
    IN  IF d.err THEN "undecodable hex"
        ELSE IF d.b = <<>> THEN "empty hex"
        ELSE WalkEnd(d.b, 0)

MalformedKinds == {"zero length", "overrunning length", "dangling length byte", "no 0x16 structure"}
BadTextKinds == {"undecodable hex", "empty hex"}

\* the request is acceptable but for its payload, and its device is known
WellAddressed ==
    /\ caller = "handleMessage"
    /\ in.method = "POST"
    /\ in.jsonOk
    /\ in.MessageID > 0
    /\ in.Timestamp > 0
    /\ macHexOk(in.DeviceMAC)
    /\ dev.hw # ""

NoServiceDataRejection ==
    /\ resp.code = 400
    /\ resp.body = "no 0x16 service data in advertisement"
    /\ effects = <<>>
    /\ dres = NoResult

\* C12 as stated: zero length, overrunning length, dangling length byte,
\* undecodable or empty hex and a payload without 0x16 all give ("", 0, nil,
\* false), and the handler answers all of them with the same rejection.
C12_AsStated ==
    /\ (caller = "extractServiceData16" /\ Terminated
          /\ TextKind(payloadHex) \in MalformedKinds \cup BadTextKinds) =>
          (pc = "done" /\ sres = NotFound)
    /\ (WellAddressed /\ pc = "done"
          /\ TextKind(in.Payload) \in MalformedKinds \cup BadTextKinds) =>
          NoServiceDataRejection

\* C12 amended: all six kinds give the identical ("", 0, nil, false) from
\* extractServiceData16; the handler answers zero length, overrunning length,
\* dangling length byte and no-0x16 payloads with the same rejection, while
\* undecodable or empty hex is rejected by validation before extraction.
C12_Uniform ==
    /\ (caller = "extractServiceData16" /\ Terminated
          /\ TextKind(payloadHex) \in MalformedKinds \cup BadTextKinds) =>
          /\ pc = "done"
          /\ sres = [uuidText |-> <<>>, frameType |-> 0, rest |-> NilSlice, ok |-> FALSE]
    /\ (WellAddressed /\ pc = "done" /\ TextKind(in.Payload) \in MalformedKinds) =>
          /\ NoServiceDataRejection
          /\ payloadHex = in.Payload
          /\ sres = [uuidText |-> <<>>, frameType |-> 0, rest |-> NilSlice, ok |-> FALSE]
    /\ (WellAddressed /\ pc = "done" /\ TextKind(in.Payload) \in BadTextKinds) =>
          /\ resp.code = 400
          /\ resp.body = "validation"
          /\ payloadHex = <<>>
          /\ effects = <<>>
          /\ dres = NoResult

C12_Witness ==
    /\ WellAddressed
    /\ pc = "done"
    /\ TextKind(in.Payload) = "zero length"
    /\ adIdx >= 1
    /\ NoServiceDataRejection

\* a decode call is between builder entry and return
Decoding ==
    /\ caller = "ParseH4ProToOutput"
    /\ pc \notin {"p_entry", "th_init", "info_init"}
    /\ dres.state # "err"

\* C15: at every point of a decode call, the return included, the cursor
\* satisfies 0 <= off <= length of the vendor body.
C15_CursorBound ==
    Decoding => (0 <= off /\ off <= Len(P))

\* C16: every emitted field is computed from the bytes at its documented
\* offset; device_type is emitted only for a T&H body of at least 9 bytes and
\* firmware_ver only for an Info body of at least 14 bytes.
C16_Positional ==
    /\ (DecodeDone(112) /\ dres.state = "ok") =>
          /\ Has("adv_interval_steps") => (Len(P) >= 2 /\ out["adv_interval_steps"] = P[2])
          /\ Has("temperature") =>
                /\ Len(P) >= 4
                /\ out["temperature"] = [num |-> Signed16(256 * P[3] + P[4]), den |-> 10]
          /\ Has("humidity") =>
                /\ Len(P) >= 6
                /\ out["humidity"] = [num |-> 256 * P[5] + P[6], den |-> 10]
          /\ Has("batt_vol") => (Len(P) >= 8 /\ out["batt_vol"] = 256 * P[7] + P[8])
          /\ Has("device_type") => (Len(P) >= 9 /\ out["device_type"] = P[9])
    /\ (DecodeDone(64) /\ dres.state = "ok") =>
          /\ Has("adv_interval_steps") => (Len(P) >= 2 /\ out["adv_interval_steps"] = P[2])
          /\ Has("batt_vol") => (Len(P) >= 4 /\ out["batt_vol"] = 256 * P[3] + P[4])
          /\ Has("device_prop") => (Len(P) >= 5 /\ out["device_prop"] = P[5])
          /\ Has("switch_status") => (Len(P) >= 6 /\ out["switch_status"] = P[6])
          /\ Has("firmware_ver") =>
                /\ Len(P) >= 14
                /\ IsFirmware(out["firmware_ver"], 256 * P[13] + P[14])

\* structures visited so far, the one at the scan position included
Visited == adIdx + (IF pc \notin {"idle", "ex_entry"} /\ i < Len(raw) THEN 1 ELSE 0)

\* one loop iteration returns, or moves on by the structure's 1 + length bytes
LoopIteration ==
    \/ /\ pc' = "done"
       /\ i' = i
       /\ adIdx' = adIdx
    \/ /\ pc' = "ex_loop"
       /\ At(raw, i) >= 1
       /\ i' = i + 1 + At(raw, i)
       /\ i' <= Len(raw)
       /\ adIdx' = adIdx + 1

\* C17: every loop iteration of extractServiceData16 returns or advances the
\* position by exactly 1 + length with length >= 1; the position never exceeds
\* the payload size; at most as many structures are visited as the payload has
\* bytes; and every call returns.
C17_Terminates ==
    /\ [][(caller = "extractServiceData16" /\ pc = "ex_loop") => LoopIteration]_vars
    /\ [](caller = "extractServiceData16" =>
            /\ 0 <= i
            /\ i <= Len(raw)
            /\ Visited <= Len(raw)
            /\ pc # "panic")
    /\ <>(caller = "extractServiceData16" /\ pc = "done" /\ Visited <= Len(raw))

C17_Witness ==
    /\ ScanDone
    /\ adIdx >= 1
    /\ i + 1 < Len(raw)
    /\ At(raw, i) = 0
    /\ Visited = adIdx + 1
    /\ ~sres.ok

\* offset of the first type-0x16 structure the walk reaches that is shorter
\* than a UUID and a frame type, or -1
RECURSIVE FirstShortSvc(_, _)
FirstShortSvc(b, pos) ==
    IF pos + 1 >= Len(b) THEN -1
    ELSE IF b[pos + 1] = 0 \/ pos + 1 + b[pos + 1] > Len(b) THEN -1
    ELSE IF b[pos + 2] = 22 THEN (IF b[pos + 1] < 4 THEN pos ELSE -1)
    ELSE FirstShortSvc(b, pos + 1 + b[pos + 1])

\* C18: when the first type-0x16 structure the walk reaches has declared
\* length 1, 2 or 3 and fits the payload, extractServiceData16 returns
\* not-found at that structure, also when a well-formed 0x16 structure follows.
C18_ShortServiceData ==
    (caller = "extractServiceData16" /\ Terminated /\ FirstShortSvc(raw, 0) >= 0) =>
        /\ pc = "done"
        /\ sres = [uuidText |-> <<>>, frameType |-> 0, rest |-> NilSlice, ok |-> FALSE]
        /\ i = FirstShortSvc(raw, 0)
        /\ raw[i + 1] \in {1, 2, 3}

C18_Witness ==
    /\ ScanDone
    /\ FirstShortSvc(raw, 0) = 3
    /\ i = 3
    /\ raw[i + 1] = 3
    /\ Len(raw) = i + 9
    /\ SubSeq(raw, i + 5, i + 9) = <<4, 22, 171, 254, 64>>
    /\ ~sres.ok

\* C19: updateParsedJSON runs only after extraction, the FEAB check and
\* decoding succeeded; publishCallback runs only after a successful update; a
\* failed update gives an error response and no publish; a failed publish
\* still gives the OK response; a rejected request stores and publishes nothing.
C19_StepOrder ==
    caller = "handleMessage" =>
        /\ effects \in {<<>>, <<"db_err">>, <<"db_ok">>,
                        <<"db_ok", "pub_ok">>, <<"db_ok", "pub_err">>}
        /\ effects # <<>> =>
              /\ sres.ok
              /\ ToUpper(sres.uuidText) = <<"F", "E", "A", "B">>
              /\ dres.state = "ok"
              /\ pc \in {"h_publish", "h_respond", "done"}
        /\ Len(effects) = 2 => pc \in {"h_respond", "done"}
        /\ (pc = "done" /\ effects = <<"db_err">>) =>
              (resp.code = 500 /\ resp.body = "db update parsed_json")
        /\ (pc = "done" /\ effects # <<>> /\ effects[1] = "db_ok") =>
              /\ resp.code = 200
              /\ resp.body = "ok"
              /\ env.publisher => Len(effects) = 2
        /\ (pc = "done" /\ resp.code \in {400, 405}) => effects = <<>>
        /\ (pc = "done" /\ resp.code = 200) => (effects # <<>> /\ effects[1] = "db_ok")

C19_Witness ==
    /\ caller = "handleMessage"
    /\ pc = "done"
    /\ effects = <<"db_ok", "pub_err">>
    /\ resp.code = 200
    /\ dres.state = "ok"

SameMap(a, b) == DOMAIN a = DOMAIN b /\ \A k \in DOMAIN a : a[k] = b[k]

SameOutcome(a, b) ==
    /\ a.kind = b.kind
    /\ a.resp = b.resp
    /\ SameMap(a.out, b.out)

UpperMac == <<"A", "A", "B", "B", "C", "C", "D", "D", "E", "E", "F", "F">>

\* the reading of the T&H body 00 05 FF 9C 01 F4 0B B8 01 AA
ReadingTH ==
    [message_type |-> "h4pro-t&h", timestamp |-> 1700000000, mac |-> UpperMac,
     device_name |-> "fridge-1", rssi |-> -70,
     adv_interval_steps |-> 5, adv_interval_ms |-> 500,
     temperature |-> [num |-> -100, den |-> 10], humidity |-> [num |-> 500, den |-> 10],
     batt_vol |-> 3000, device_type |-> 1]

\* the reading of the Info body 00 05 0B B8 85 01 AA BB CC DD EE FF 00 07
ReadingInfo ==
    [message_type |-> "h4pro-info", timestamp |-> 1700000060, mac |-> UpperMac,
     device_name |-> "tag-7",
     adv_interval_steps |-> 5, adv_interval_ms |-> 500, batt_vol |-> 3000,
     device_prop |-> 133, device_prop_bits |-> <<"1", "0", "0", "0", "0", "1", "0", "1">>,
     switch_status |-> 1, switch_status_bits |-> <<"0", "0", "0", "0", "0", "0", "0", "1">>,
     firmware_ver |-> <<"V", "0", ".", "0", ".", "7">>]

\* the outcome of a run on input x when no other call has been made
FirstOutcome(x) ==
    IF x = InputTH THEN [kind |-> "reading", resp |-> NoResp, out |-> ReadingTH]
    ELSE IF x = InputInfo THEN [kind |-> "reading", resp |-> NoResp, out |-> ReadingInfo]
    ELSE [kind |-> "rejection",
          resp |-> [code |-> 400, body |-> "no 0x16 service data in advertisement",
                    detail |-> <<>>],
          out |-> NoOut]

\* C13: the outcome of a run of the scan-then-decode pipeline is fixed by its
\* input alone (the same reading, key for key, or the same rejection): a
\* first call and a call made after a call on any input give that outcome.
C13_Deterministic ==
    \A k \in 1..Len(calls.log) :
        calls.log[k].alone =>
            SameOutcome(calls.log[k].outcome, FirstOutcome(calls.log[k].input))

C13_Witness ==
    /\ Len(calls.log) = 2
    /\ calls.log[2].input # calls.log[1].input
    /\ \A k \in 1..2 : calls.log[k].alone /\ calls.log[k].earlier = k - 1
    /\ calls.log[1].outcome.kind = "reading"
    /\ calls.log[2].outcome.kind = "reading"
    /\ "temperature" \in DOMAIN calls.log[2].outcome.out
    /\ SameMap(calls.log[2].outcome.out, ReadingTH)

\* C14: in every interleaving of the steps of concurrent calls, a step of the
\* running call leaves the other call's scan position, cursor and output map
\* as they were, and a call that ran together with another has the outcome it
\* has when it runs alone.
C14_Isolated ==
    /\ [][calls'.parked.earlier = calls.parked.earlier =>
            /\ Parked'.i = Parked.i
            /\ Parked'.off = Parked.off
            /\ SameMap(Parked'.out, Parked.out)]_vars
    /\ [](\A k \in 1..Len(calls.log) :
            ~calls.log[k].alone =>
                SameOutcome(calls.log[k].outcome, FirstOutcome(calls.log[k].input)))

\* two calls on the same input, each taken off the processor while the other
\* was under way, both with the reading of a call that runs alone
C14_Witness ==
    /\ Len(calls.log) = 2
    /\ calls.log[2].input = calls.log[1].input
    /\ \A k \in 1..2 :
          /\ ~calls.log[k].alone
          /\ calls.log[k].cut
          /\ calls.log[k].outcome.kind = "reading"
          /\ SameMap(calls.log[k].outcome.out, ReadingTH)

====
